---- MODULE Spec2Model ----
(***************************************************************************)
(* Model of class db_unified (src/db_unified.py): one instance, its native *)
(* connection and cursor, and the calls made on it.  Python values are     *)
(* records [ty, v]; a Python str is its sequence of characters; a raised   *)
(* exception is the value [ty |-> "raise", v |-> <<name>>].                *)
(***************************************************************************)
EXTENDS Integers, Sequences, FiniteSets, TLC

\* ------------------------------------------------------------------------
\* Bounds and program constants
\* ------------------------------------------------------------------------

\* Most native connections this instance may hold open at once in the model.
MaxOpenConns == 2

\* query.upper()[:20]
PrefixLen == 20

\* ------------------------------------------------------------------------
\* Python str as a sequence of characters
\* ------------------------------------------------------------------------

LowerChars ==
    <<"a","b","c","d","e","f","g","h","i","j","k","l","m","n","o","p","q","r","s","t","u","v","w","x","y","z">>

UpperChars ==
    <<"A","B","C","D","E","F","G","H","I","J","K","L","M","N","O","P","Q","R","S","T","U","V","W","X","Y","Z">>

UpperMap ==
    [c \in {LowerChars[i] : i \in 1..Len(LowerChars)} |->
        UpperChars[CHOOSE i \in 1..Len(LowerChars) : LowerChars[i] = c]]

UpperChar(c) == IF c \in DOMAIN UpperMap THEN UpperMap[c] ELSE c

\* str.upper()
Upper(s) == SubSeq([i \in 1..Len(s) |-> UpperChar(s[i])], 1, Len(s))

\* s[:n]
Prefix(s, n) == SubSeq(s, 1, IF Len(s) < n THEN Len(s) ELSE n)

\* pat in s
Contains(s, pat) ==
    \E i \in 1..(Len(s) - Len(pat) + 1) : SubSeq(s, i, i + Len(pat) - 1) = pat

StartsWith(s, pat) ==
    Len(s) >= Len(pat) /\ SubSeq(s, 1, Len(pat)) = pat

\* str.replace(old, new): every non-overlapping occurrence, left to right
RECURSIVE Replace(_, _, _)
Replace(s, old, new) ==
    IF s = <<>> THEN <<>>
    ELSE IF StartsWith(s, old)
         THEN new \o Replace(SubSeq(s, Len(old) + 1, Len(s)), old, new)
         ELSE <<Head(s)>> \o Replace(Tail(s), old, new)

KW_SELECT == <<"S","E","L","E","C","T">>
KW_SHOW == <<"S","H","O","W">>
KW_RETURNING == <<"R","E","T","U","R","N","I","N","G">>
PH_percent_s == <<"%","s">>
PH_qmark == <<"?">>

\* ------------------------------------------------------------------------
\* Statement texts
\* ------------------------------------------------------------------------

\* SELECT * FROM t  (15 characters)
Q_select ==
    <<"S","E","L","E","C","T"," ","*"," ","F","R","O","M"," ","t">>
\* SHOW TABLES  (11 characters)
Q_show ==
    <<"S","H","O","W"," ","T","A","B","L","E","S">>
\* INSERT INTO t(a) VALUES(1) RETURNING id  (39 characters)
Q_returning ==
    <<"I","N","S","E","R","T"," ","I","N","T","O"," ","t","(","a",")"," ","V","A","L","U","E","S","(","1",")"," ","R","E","T","U","R","N","I","N","G"," ","i","d">>
\* UPDATE t SET x=1  (16 characters)
Q_update ==
    <<"U","P","D","A","T","E"," ","t"," ","S","E","T"," ","x","=","1">>
\* DELETE FROM t WHERE id=%s  (25 characters)
Q_delete ==
    <<"D","E","L","E","T","E"," ","F","R","O","M"," ","t"," ","W","H","E","R","E"," ","i","d","=","%","s">>
\* select name, age from users  (27 characters)
Q_lower ==
    <<"s","e","l","e","c","t"," ","n","a","m","e",","," ","a","g","e"," ","f","r","o","m"," ","u","s","e","r","s">>
\* INSERT INTO t2 (a, b) SELECT a, b FROM t  (40 characters, SELECT after the 20th)
Q_late ==
    <<"I","N","S","E","R","T"," ","I","N","T","O"," ","t","2"," ","(","a",","," ","b",")"," ","S","E","L","E","C","T"," ","a",","," ","b"," ","F","R","O","M"," ","t">>
\* INSERT INTO t (a) SELECT a FROM u  (33 characters, SELECT straddles the 20th)
Q_straddle ==
    <<"I","N","S","E","R","T"," ","I","N","T","O"," ","t"," ","(","a",")"," ","S","E","L","E","C","T"," ","a"," ","F","R","O","M"," ","u">>
\* WITH x AS (SELECT 1) SELECT * FROM x  (36 characters, SELECT ends at the 19th)
Q_with ==
    <<"W","I","T","H"," ","x"," ","A","S"," ","(","S","E","L","E","C","T"," ","1",")"," ","S","E","L","E","C","T"," ","*"," ","F","R","O","M"," ","x">>
\* UPDATE t SET a=%s WHERE b=%s  (28 characters)
Q_two ==
    <<"U","P","D","A","T","E"," ","t"," ","S","E","T"," ","a","=","%","s"," ","W","H","E","R","E"," ","b","=","%","s">>
\* update t set x=1 returning x  (28 characters)
Q_lowret ==
    <<"u","p","d","a","t","e"," ","t"," ","s","e","t"," ","x","=","1"," ","r","e","t","u","r","n","i","n","g"," ","x">>

Queries ==
    {Q_select, Q_show, Q_returning, Q_update, Q_delete, Q_lower,
     Q_late, Q_straddle, Q_with, Q_two, Q_lowret}

\* ------------------------------------------------------------------------
\* Python values
\* ------------------------------------------------------------------------

PNone == [ty |-> "none", v |-> <<>>]
PInt(n) == [ty |-> "int", v |-> <<n>>]
PStr(chars) == [ty |-> "str", v |-> chars]
PBool(b) == [ty |-> "bool", v |-> <<b>>]
PTuple(items) == [ty |-> "tuple", v |-> items]
PList(items) == [ty |-> "list", v |-> items]
\* a mapping row (RealDictRow, dict): ordered pairs <<key, value>>
PDict(pairs) == [ty |-> "dict", v |-> pairs]
\* a sqlite3.Row: indexable, has keys(), iterates over its values
PRow(pairs) == [ty |-> "row", v |-> pairs]
Raise(name) == [ty |-> "raise", v |-> <<name>>]

IsRaise(x) == x.ty = "raise"
IsNone(x) == x.ty = "none"

PEmptyStr == PStr(<<>>)

Keys(pairs) == [i \in 1..Len(pairs) |-> PStr(pairs[i][1])]
Values(pairs) == [i \in 1..Len(pairs) |-> pairs[i][2]]

\* x[0]
Index0(x) ==
    CASE x.ty \in {"tuple", "list"} ->
            IF Len(x.v) = 0 THEN Raise("IndexError") ELSE x.v[1]
      [] x.ty = "row" ->
            IF Len(x.v) = 0 THEN Raise("IndexError") ELSE x.v[1][2]
      [] x.ty = "str" ->
            IF Len(x.v) = 0 THEN Raise("IndexError") ELSE PStr(<<x.v[1]>>)
      [] x.ty = "dict" -> Raise("KeyError")
      [] OTHER -> Raise("TypeError")

\* list(x)
ToList(x) ==
    CASE x.ty \in {"tuple", "list"} -> PList(x.v)
      [] x.ty = "row" -> PList(Values(x.v))
      [] x.ty = "dict" -> PList(Keys(x.v))
      [] x.ty = "str" -> PList([i \in 1..Len(x.v) |-> PStr(<<x.v[i]>>)])
      [] OTHER -> Raise("TypeError")

\* the first raised exception among the items of a sequence, else the list
FirstRaise(items) ==
    IF \E i \in 1..Len(items) : IsRaise(items[i])
    THEN items[CHOOSE i \in 1..Len(items) :
                 IsRaise(items[i]) /\ \A j \in 1..(i - 1) : ~IsRaise(items[j])]
    ELSE PList(items)

\* ------------------------------------------------------------------------
\* What the backend answers to a statement: column names and positional rows
\* ------------------------------------------------------------------------

S_name == <<"n","a","m","e">>
S_age == <<"a","g","e">>
S_id == <<"i","d">>
S_label == <<"l","a","b","e","l">>
S_Ann == <<"A","n","n">>
S_Bo == <<"B","o">>
S_x == <<"x">>

RS_empty == [cols |-> <<S_name, S_age>>, rows |-> <<>>]
RS_one == [cols |-> <<S_id, S_label>>, rows |-> << <<PInt(42), PStr(S_x)>> >>]
RS_users ==
    [cols |-> <<S_name, S_age>>,
     rows |-> << <<PStr(S_Ann), PInt(30)>>, <<PStr(S_Bo), PNone>> >>]
RS_null == [cols |-> <<S_id, S_label>>, rows |-> << <<PNone, PStr(S_x)>> >>]

ResultSets == {RS_empty, RS_one, RS_users, RS_null}

\* a native row as the cursor hands it out
Render(raw, names, kind) ==
    LET pairs == [i \in 1..Len(raw) |-> <<names[i], raw[i]>>]
    IN  CASE kind = "dict" -> PDict(pairs)
          [] kind = "row" -> PRow(pairs)
          [] OTHER -> PTuple(raw)

\* ------------------------------------------------------------------------
\* State
\* ------------------------------------------------------------------------
\* Profile resolver: __init__
\* ------------------------------------------------------------------------

\* what a method body evaluates to: the state it leaves and what it returns
Result(s, r) == [s |-> s, ret |-> r]

\* a str the constructor only stores and compares, held in one piece
PWord(w) == PStr(<<w>>)
TypeName(v) == v.v[1]

\* an attribute the constructor has not assigned yet
Unset == [ty |-> "unset", v |-> <<>>]

\* a dict given as config: m maps the keys it holds to their values
Mapping(m) == [ty |-> "dict", v |-> m]

\* config.get(key, default)
Get(config, key, default) ==
    IF key \in DOMAIN config.v THEN config.v[key] ELSE default

DbTypes == {"postgresql", "mariadb", "mysql", "sqlserver", "sqlite"}

\* self.database ... self.options = None
blank ==
    [db_type |-> Unset, database |-> PNone, host |-> PNone, port |-> PNone,
     user |-> PNone, password |-> PNone, sslmode |-> PNone, options |-> PNone,
     ssl_ca |-> Unset, ssl_key |-> Unset, ssl_cert |-> Unset,
     ssl_verify_cert |-> Unset, passwd |-> Unset]

\* the test that no db_type was given, in the argument or in the config
typeMissing(c) ==
    IsNone(c.db_type) /\ (~IsNone(c.config) /\ IsNone(Get(c.config, "type", PNone)))

\* self.db_type = db_type if db_type is not None else config.get("type")
saveType(self, c) ==
    CASE ~IsNone(c.db_type) -> Result([self EXCEPT !.db_type = c.db_type], PNone)
      [] IsNone(c.config) -> Result(self, Raise("AttributeError"))
      [] OTHER ->
            Result([self EXCEPT !.db_type = Get(c.config, "type", PNone)], PNone)

\* the default values of each db_type
defaults(self) ==
    CASE self.db_type = PWord("postgresql") ->
            [self EXCEPT !.port = PInt(5432),
                         !.user = PWord("postgres"),
                         !.sslmode = PWord("allow"),
                         !.options = PEmptyStr]
      [] self.db_type \in {PWord("mariadb"), PWord("mysql")} ->
            [self EXCEPT !.port = PInt(3306),
                         !.sslmode = PWord("allow"),
                         !.options = PEmptyStr]
      [] self.db_type = PWord("sqlserver") ->
            [self EXCEPT !.port = PEmptyStr,
                         !.sslmode = PWord("allow"),
                         !.options = PEmptyStr]
      [] self.db_type = PWord("sqlite") ->
            [self EXCEPT !.host = PEmptyStr,
                         !.port = PEmptyStr,
                         !.user = PEmptyStr,
                         !.password = PEmptyStr,
                         !.sslmode = PEmptyStr,
                         !.options = PEmptyStr]
      [] OTHER -> self

\* if config is not None: the fields the config holds
fromConfig(self, config) ==
    IF IsNone(config)
    THEN self
    ELSE [self EXCEPT !.database = Get(config, "name", @),
                      !.host = Get(config, "addr", @),
                      !.port = Get(config, "port", @),
                      !.user = Get(config, "user", @),
                      !.password = Get(config, "passwd", @),
                      !.sslmode = Get(config, "sslmode", @),
                      !.ssl_ca = Get(config, "ssl_ca", PNone),
                      !.ssl_key = Get(config, "ssl_key", PNone),
                      !.ssl_cert = Get(config, "ssl_cert", PNone),
                      !.ssl_verify_cert = Get(config, "ssl_verify_cert", PNone),
                      !.options = Get(config, "options", @)]

\* fromParams keeping what the config or the defaults already set
fromParams_weak(self, c) ==
    [self EXCEPT
        !.database = IF IsNone(@) THEN c.db_name ELSE @,
        !.host = IF IsNone(@) THEN c.db_server ELSE @,
        !.port = IF IsNone(@) THEN c.db_port ELSE @,
        !.user = IF IsNone(@) THEN c.db_user ELSE @,
        !.password = IF IsNone(@) THEN c.db_password ELSE @,
        !.sslmode = IF IsNone(@) THEN c.sslmode ELSE @,
        !.options = IF IsNone(@) THEN c.options ELSE @]

\* the parameters that were given
fromParams(self, c) ==
    [self EXCEPT
        !.database = IF ~IsNone(c.db_name) THEN c.db_name ELSE @,
        !.host = IF ~IsNone(c.db_server) THEN c.db_server ELSE @,
        !.port = IF ~IsNone(c.db_port) THEN c.db_port ELSE @,
        !.user = IF ~IsNone(c.db_user) THEN c.db_user ELSE @,
        !.password = IF ~IsNone(c.db_password) THEN c.db_password ELSE @,
        !.sslmode = IF ~IsNone(c.sslmode) THEN c.sslmode ELSE @,
        !.options = IF ~IsNone(c.options) THEN c.options ELSE @]

\* the check that the config is complete, the user left unchecked
complete_nouser(self) ==
    CASE IsNone(self.database) -> Result(self, Raise("ValueError"))
      [] IsNone(self.host) -> Result(self, Raise("ValueError"))
      [] IsNone(self.port) -> Result(self, Raise("ValueError"))
      [] OTHER ->
            LET s1 == IF IsNone(self.password)
                      THEN [self EXCEPT !.passwd = PEmptyStr]
                      ELSE self
            IN  CASE IsNone(s1.sslmode) -> Result(s1, Raise("ValueError"))
                  [] IsNone(s1.options) -> Result(s1, Raise("ValueError"))
                  [] OTHER -> Result(s1, PNone)

\* the check that the config is complete
complete(self) ==
    CASE IsNone(self.database) -> Result(self, Raise("ValueError"))
      [] IsNone(self.host) -> Result(self, Raise("ValueError"))
      [] IsNone(self.port) -> Result(self, Raise("ValueError"))
      [] IsNone(self.user) -> Result(self, Raise("ValueError"))
      [] OTHER ->
            LET s1 == IF IsNone(self.password)
                      THEN [self EXCEPT !.passwd = PEmptyStr]
                      ELSE self
            IN  CASE IsNone(s1.sslmode) -> Result(s1, Raise("ValueError"))
                  [] IsNone(s1.options) -> Result(s1, Raise("ValueError"))
                  [] OTHER -> Result(s1, PNone)

\* __init__(db_type, db_name, db_server, db_port, db_user, db_password,
\*          sslmode, options, config): the attributes of the instance, and the
\* exception raised if any
construct(c) ==
    IF typeMissing(c)
    THEN Result(blank, Raise("ValueError"))
    ELSE LET t == saveType(blank, c)
         IN  IF IsRaise(t.ret)
             THEN t
             ELSE complete(fromParams(fromConfig(defaults(t.s), c.config), c))

\* ------------------------------------------------------------------------

VARIABLES
    ctor,         \* arguments the caller passes to the constructor
    profile,      \* attributes set by the constructor, and what it raised
    db_type,      \* self.db_type, fixed by the constructor
    args,         \* arguments the caller passes to exec, and the backend's answer
    db,           \* self.db: "None", "open" or "closed" native connection
    cursor,       \* self.cursor: "None", "open" or "closed" native cursor
    rowKind,      \* row class of self.cursor: "tuple", "dict" or "row"
    row_factory,  \* self.db.row_factory: "default" or "Row"
    cols,         \* self.cursor.description, column names of the last statement
    unread,       \* rows of the last statement not fetched yet
    openConns,    \* native connections opened by this instance and not closed
    openCursors,  \* native cursors created by this instance and not closed
    log,          \* driver calls made by the last operation, in order
    sent,         \* what the last operation handed to cursor.execute(many)
    openArgs,     \* the arguments of the open() that the last operation called
    lastOp,       \* name of the last operation
    ret           \* what the last operation returned or raised

vars ==
    <<ctor, profile, db_type, args, db, cursor, rowKind, row_factory, cols,
      unread, openConns, openCursors, log, sent, openArgs, lastOp, ret>>

\* the session part of the state, threaded through a method's statements
Session ==
    [db |-> db, cursor |-> cursor, rowKind |-> rowKind,
     row_factory |-> row_factory, cols |-> cols, unread |-> unread,
     openConns |-> openConns, openCursors |-> openCursors,
     log |-> <<>>, sent |-> <<>>, openArgs |-> <<>>]

Logged(s, ev) == [s EXCEPT !.log = Append(@, ev)]

\* ------------------------------------------------------------------------
\* Session manager
\* ------------------------------------------------------------------------

\* the password that connect() hands to the driver for an instance whose
\* attributes are self: password=self.password, ";PWD=" + self.password
passwordArg(self) == self.password

\* connect(): d.fault tells what the driver's connect() does
connect(s, d) ==
    IF db_type \in DbTypes
    THEN CASE d.fault = "connect_raise" ->
                Result(Logged(s, "connect"), Raise("BackendError"))
           [] d.fault = "connect_none" ->
                Result([Logged(s, "connect") EXCEPT !.db = "None"], PBool(FALSE))
           [] OTHER ->
                Result([Logged(s, "connect") EXCEPT
                            !.db = "open",
                            !.row_factory = "default",
                            !.openConns = @ + 1],
                       PBool(TRUE))
    ELSE Result(s, PBool(s.db # "None"))

\* disconnect()
disconnect(s) ==
    IF s.db = "None"
    THEN Result(s, Raise("AttributeError"))
    ELSE Result([Logged(s, "db.close") EXCEPT
                     !.db = "closed",
                     !.openConns = IF s.db = "open" THEN @ - 1 ELSE @],
                PNone)

\* self.cursor.close() on a cursor that exists
cursorClose(s) ==
    [Logged(s, "cursor.close") EXCEPT
        !.cursor = "closed",
        !.unread = <<>>,
        !.openCursors = IF s.cursor = "open" THEN @ - 1 ELSE @]

\* open leaving the cursor it holds as it is
tryCloseCursor_skip(s) == s

\* try: self.cursor.close() except: pass
tryCloseCursor(s) ==
    IF s.cursor = "None" THEN s ELSE cursorClose(s)

FetchTypes == {"tuple", "list", "dict", "with_names"}

\* the row class of the cursor that open() asks the driver for
cursorKind(s, fetch_type) ==
    CASE db_type = "postgresql" /\ fetch_type \in {"dict", "with_names"} -> "dict"
      [] db_type \in {"mysql", "mariadb"} /\ fetch_type = "dict" -> "dict"
      [] db_type = "sqlite" /\ fetch_type \in {"dict", "with_names"} -> "row"
      [] db_type = "sqlite" /\ s.row_factory = "Row" -> "row"
      [] OTHER -> "tuple"

\* self.cursor = self.db.cursor(...)
newCursor(s, fetch_type, d) ==
    CASE s.db = "None" -> Result(s, Raise("AttributeError"))
      [] s.db = "closed" -> Result(Logged(s, "db.cursor"), Raise("BackendError"))
      [] OTHER ->
            LET s1 == [s EXCEPT !.row_factory =
                          IF db_type = "sqlite" /\ fetch_type \in {"dict", "with_names"}
                          THEN "Row" ELSE @]
                s2 == [Logged(s1, "db.cursor") EXCEPT
                          !.cursor = "open",
                          !.openCursors = @ + 1,
                          !.rowKind = cursorKind(s, fetch_type),
                          !.cols = <<>>,
                          !.unread = <<>>]
            IN  Result(s2, PBool(s2.cursor # "None"))

\* open() carrying on although connect() returned False
openAfterConnect_ignoring(r, fetch_type, d) ==
    IF IsRaise(r.ret)
    THEN r
    ELSE LET s1 == tryCloseCursor(r.s)
         IN  IF fetch_type \notin FetchTypes
             THEN Result(s1, Raise("ValueError"))
             ELSE newCursor(s1, fetch_type, d)

\* what open() does once connect() has returned r
openAfterConnect(r, fetch_type, d) ==
    CASE IsRaise(r.ret) -> r
      [] r.ret = PBool(FALSE) -> r
      [] OTHER ->
            LET s1 == tryCloseCursor(r.s)
            IN  IF fetch_type \notin FetchTypes
                THEN Result(s1, Raise("ValueError"))
                ELSE newCursor(s1, fetch_type, d)

\* the session once open(auto_connect, fetch_type) is entered
entered(s, auto_connect, fetch_type) ==
    [s EXCEPT !.openArgs = <<auto_connect, fetch_type>>]

\* open checking fetch_type before anything else
open_checking_first(s, auto_connect, fetch_type, d) ==
    LET s0 == entered(s, auto_connect, fetch_type)
    IN  IF fetch_type \notin FetchTypes
        THEN Result(s0, Raise("ValueError"))
        ELSE openAfterConnect(IF auto_connect THEN connect(s0, d)
                                              ELSE Result(s0, PBool(TRUE)),
                              fetch_type, d)

\* open(auto_connect, fetch_type)
open(s, auto_connect, fetch_type, d) ==
    LET s0 == entered(s, auto_connect, fetch_type)
    IN  openAfterConnect(IF auto_connect THEN connect(s0, d)
                                          ELSE Result(s0, PBool(TRUE)),
                         fetch_type, d)

\* commit()
commit(s) ==
    CASE s.db = "None" -> Result(s, Raise("AttributeError"))
      [] s.db = "closed" -> Result(Logged(s, "db.commit"), Raise("BackendError"))
      [] OTHER -> Result(Logged(s, "db.commit"), PNone)

\* closeCursorThenDisconnect disconnecting whatever auto_connect is
closeCursorThenDisconnect_always(s, auto_connect) ==
    IF s.cursor = "None"
    THEN Result(s, Raise("AttributeError"))
    ELSE disconnect(cursorClose(s))

\* self.cursor.close(); if auto_connect: self.disconnect()
closeCursorThenDisconnect(s, auto_connect) ==
    IF s.cursor = "None"
    THEN Result(s, Raise("AttributeError"))
    ELSE LET s1 == cursorClose(s)
         IN  IF auto_connect THEN disconnect(s1) ELSE Result(s1, PNone)

\* close with the cursor closed before the commit
close_late_commit(s, commit_, auto_connect) ==
    LET r == closeCursorThenDisconnect(s, FALSE)
        c == IF commit_ /\ ~IsRaise(r.ret) THEN commit(r.s) ELSE r
    IN  IF IsRaise(c.ret) \/ ~auto_connect THEN c ELSE disconnect(c.s)

\* close(commit, auto_connect)
close(s, commit_, auto_connect) ==
    LET r == IF commit_ THEN commit(s) ELSE Result(s, PNone)
    IN  IF IsRaise(r.ret) THEN r ELSE closeCursorThenDisconnect(r.s, auto_connect)

\* ------------------------------------------------------------------------
\* Statement dispatcher
\* ------------------------------------------------------------------------

\* str.replace(old, new, 1): the first occurrence only
ReplaceFirst(s, old, new) ==
    IF \E i \in 1..(Len(s) - Len(old) + 1) : SubSeq(s, i, i + Len(old) - 1) = old
    THEN LET i == CHOOSE k \in 1..(Len(s) - Len(old) + 1) :
                      /\ SubSeq(s, k, k + Len(old) - 1) = old
                      /\ \A j \in 1..(k - 1) : SubSeq(s, j, j + Len(old) - 1) # old
         IN  SubSeq(s, 1, i - 1) \o new \o SubSeq(s, i + Len(old), Len(s))
    ELSE s

\* translateQuery rewriting the first placeholder only
translateQuery_first(query) ==
    IF db_type = "sqlite" THEN ReplaceFirst(query, PH_percent_s, PH_qmark) ELSE query

\* the statement text execute()/executemany() hand to the driver
translateQuery(query) ==
    IF db_type = "sqlite" THEN Replace(query, PH_percent_s, PH_qmark) ELSE query

\* the params execute()/executemany() hand to the driver
translateParams(params) ==
    IF db_type = "sqlite" /\ IsNone(params) THEN PTuple(<<>>) ELSE params

\* self.cursor.execute(query, params) / self.cursor.executemany(query, params)
driverExecute(s, call, query, params, d) ==
    LET s1 == [Logged(s, call) EXCEPT
                   !.sent = <<[call |-> call, query |-> query, params |-> params]>>]
    IN  CASE s.cursor = "None" -> Result(s, Raise("AttributeError"))
          [] s.cursor = "closed" \/ s.db # "open" \/ d.fault = "execute" ->
                Result(s1, Raise("BackendError"))
          [] OTHER ->
                Result([s1 EXCEPT !.cols = d.rs.cols, !.unread = d.rs.rows], PNone)

\* execute(query, params)
execute(s, query, params, d) ==
    driverExecute(s, "cursor.execute", translateQuery(query), translateParams(params), d)

\* executemany(query, params)
executemany(s, query, params, d) ==
    driverExecute(s, "cursor.executemany", translateQuery(query), translateParams(params), d)

\* fetchall(): fails is whether the driver raises on this call
fetchall(s, fails) ==
    IF fails
    THEN Result(Logged(s, "cursor.fetchall"), Raise("BackendError"))
    ELSE Result([Logged(s, "cursor.fetchall") EXCEPT !.unread = <<>>],
                PList([i \in 1..Len(s.unread) |->
                          Render(s.unread[i], s.cols, s.rowKind)]))

\* fetchone()
fetchone(s, fails) ==
    CASE fails -> Result(Logged(s, "cursor.fetchone"), Raise("BackendError"))
      [] s.unread = <<>> -> Result(Logged(s, "cursor.fetchone"), PNone)
      [] OTHER ->
            Result([Logged(s, "cursor.fetchone") EXCEPT !.unread = Tail(@)],
                   Render(Head(s.unread), s.cols, s.rowKind))

\* ------------------------------------------------------------------------
\* Result normalizer
\* ------------------------------------------------------------------------

NoneToEmpty(x) == IF IsNone(x) THEN PEmptyStr ELSE x

\* replace_none_list(liste), liste a list
replace_none_list(liste) ==
    IF Len(liste.v) = 0
    THEN Raise("IndexError")
    ELSE IF liste.v[1].ty = "list"
         THEN IF \E i \in 1..Len(liste.v) :
                     liste.v[i].ty \notin {"list", "tuple", "dict", "row", "str"}
              THEN Raise("TypeError")
              ELSE PList([i \in 1..Len(liste.v) |->
                            IF liste.v[i].ty = "list"
                            THEN PList([j \in 1..Len(liste.v[i].v) |->
                                           NoneToEmpty(liste.v[i].v[j])])
                            ELSE liste.v[i]])
         ELSE PList([i \in 1..Len(liste.v) |-> NoneToEmpty(liste.v[i])])

\* a two-element list, or the exception raised while building an element
Pair(a, b) ==
    CASE IsRaise(a) -> a
      [] IsRaise(b) -> b
      [] OTHER -> PList(<<a, b>>)

\* list(x.keys()), list(x.values()), x[0], replace_none_list(x) and
\* [row for row in x], where evaluating x may already have raised
keys(x) ==
    CASE IsRaise(x) -> x
      [] x.ty \in {"dict", "row"} -> PList(Keys(x.v))
      [] OTHER -> Raise("AttributeError")

values(x) ==
    CASE IsRaise(x) -> x
      [] x.ty = "dict" -> PList(Values(x.v))
      [] OTHER -> Raise("AttributeError")

first(x) == IF IsRaise(x) THEN x ELSE Index0(x)

rnl(x) == IF IsRaise(x) THEN x ELSE replace_none_list(x)

iterate(x) ==
    CASE x.ty \in {"int", "none", "bool"} -> Raise("TypeError")
      [] OTHER -> ToList(x)

\* [list(row.values()) for row in value]
rowsValues(value) ==
    IF value.ty # "list"
    THEN Raise("TypeError")
    ELSE FirstRaise([i \in 1..Len(value.v) |-> values(value.v[i])])

\* [i[0] for i in self.cursor.description]
titlesOf(description) ==
    PList([i \in 1..Len(description) |-> PStr(description[i])])

\* extract_title(value, fetch); description is self.cursor.description
extract_title(value, fetch, description) ==
    CASE value.ty = "list" /\ Len(value.v) = 0 -> PList(<<>>)
      [] db_type = "postgresql" /\ fetch = "all" ->
            Pair(keys(first(value)), rnl(rowsValues(value)))
      [] db_type = "postgresql" /\ fetch = "one" ->
            Pair(keys(value), rnl(values(value)))
      [] db_type = "postgresql" /\ fetch = "single" ->
            Pair(first(keys(value)), first(rnl(values(value))))
      [] db_type \in {"mysql", "mariadb"} ->
            Pair(titlesOf(description), rnl(iterate(value)))
      [] OTHER -> Raise("UnboundLocalError")

\* ------------------------------------------------------------------------
\* exec
\* ------------------------------------------------------------------------

\* fetch_type after the compatibility rename of "dict_name"
renamed(fetch_type) ==
    IF fetch_type = "dict_name" THEN "with_names" ELSE fetch_type

\* needsCommit with the keywords looked for in the whole text
needsCommit_whole(query) ==
    ~Contains(Upper(query), KW_SELECT) /\ ~Contains(Upper(query), KW_SHOW)

\* commit, as exec determines it from the statement text
needsCommit(query) ==
    LET head == Prefix(Upper(query), PrefixLen)
    IN  ~Contains(head, KW_SELECT) /\ ~Contains(head, KW_SHOW)

\* whether exec takes the branch that fetches and returns a value
fetches(query) ==
    LET upper == Upper(query)
    IN  ~needsCommit(query) \/ Contains(upper, KW_RETURNING)

\* whether exec uses executemany
usesExecutemany(insert_many) ==
    insert_many /\ db_type \in {"postgresql", "mariadb"}

\* drain leaving the remaining rows on the cursor
drain_skip(s, v, fails) == Result(s, v)

\* trash = self.fetchall(), after the value v was obtained in state s
drain(s, v, fails) ==
    IF IsRaise(v)
    THEN Result(s, v)
    ELSE LET r == fetchall(s, fails)
         IN  IF IsRaise(r.ret) THEN r ELSE Result(r.s, v)

\* [item[0] for item in rows]
firstFields(rows) ==
    FirstRaise([i \in 1..Len(rows.v) |-> Index0(rows.v[i])])

\* the fetch stage taking an unknown fetch for "all"
fetchStage_lenient(s, fetch, fetch_title, d) ==
    LET r == fetchall(s, d.fault = "fetch1")
    IN  IF IsRaise(r.ret) \/ ~fetch_title
        THEN r
        ELSE Result(r.s, extract_title(r.ret, "all", r.s.cols))

\* the fetch stage of exec: the value fetched, before the cursor is closed
fetchStage(s, fetch, fetch_title, d) ==
    CASE fetch = "all" ->
            LET r == fetchall(s, d.fault = "fetch1")
            IN  IF IsRaise(r.ret) \/ ~fetch_title
                THEN r
                ELSE Result(r.s, extract_title(r.ret, fetch, r.s.cols))
      [] fetch = "one" ->
            LET r == fetchone(s, d.fault = "fetch1")
            IN  IF IsRaise(r.ret)
                THEN r
                ELSE drain(r.s,
                           IF fetch_title
                           THEN extract_title(r.ret, fetch, r.s.cols)
                           ELSE r.ret,
                           d.fault = "fetch2")
      [] fetch = "single" ->
            LET r == fetchone(s, d.fault = "fetch1")
            IN  IF IsRaise(r.ret)
                THEN r
                ELSE drain(r.s,
                           CASE fetch_title -> extract_title(r.ret, fetch, r.s.cols)
                             [] ~IsNone(r.ret) -> Index0(r.ret)
                             [] OTHER -> r.ret,
                           d.fault = "fetch2")
      [] fetch = "list" ->
            LET r == fetchall(s, d.fault = "fetch1")
            IN  IF IsRaise(r.ret) THEN r ELSE Result(r.s, firstFields(r.ret))
      [] OTHER -> Result(s, Raise("ValueError"))

\* the conversion exec applies to the value when fetch_type is "list"
toListShape(value, fetch, fetch_type) ==
    CASE fetch_type = "list" /\ fetch = "all" ->
            FirstRaise([i \in 1..Len(value.v) |-> ToList(value.v[i])])
      [] fetch_type = "list" /\ fetch \in {"one", "single"} /\ ~IsNone(value) ->
            ToList(value)
      [] OTHER -> value

\* afterExecute closing without commit after a fetch
afterExecute_nocommit(s, a, d) ==
    IF fetches(a.query)
    THEN LET f == fetchStage(s, a.fetch, renamed(a.fetch_type) = "with_names", d)
         IN  IF IsRaise(f.ret)
             THEN f
             ELSE LET c == close(f.s, FALSE, a.auto_connect)
                  IN  IF IsRaise(c.ret)
                      THEN c
                      ELSE Result(c.s, toListShape(f.ret, a.fetch, renamed(a.fetch_type)))
    ELSE close(s, needsCommit(a.query), a.auto_connect)

\* exec, from the point where the statement has been executed in state s
afterExecute(s, a, d) ==
    IF fetches(a.query)
    THEN LET f == fetchStage(s, a.fetch, renamed(a.fetch_type) = "with_names", d)
         IN  IF IsRaise(f.ret)
             THEN f
             ELSE LET c == close(f.s, needsCommit(a.query), a.auto_connect)
                  IN  IF IsRaise(c.ret)
                      THEN c
                      ELSE Result(c.s, toListShape(f.ret, a.fetch, renamed(a.fetch_type)))
    ELSE close(s, needsCommit(a.query), a.auto_connect)

\* exec closing the cursor, and the connection it opened, when the driver
\* raises
exec_cleanup(s, a, d) ==
    LET o == open(s, a.auto_connect, renamed(a.fetch_type), d)
    IN  CASE IsRaise(o.ret) -> o
          [] o.ret = PBool(FALSE) -> Result(o.s, Raise("AttributeError"))
          [] OTHER ->
                LET e == IF usesExecutemany(a.insert_many)
                         THEN executemany(o.s, a.query, a.params, d)
                         ELSE execute(o.s, a.query, a.params, d)
                    r == IF IsRaise(e.ret) THEN e ELSE afterExecute(e.s, a, d)
                IN  IF IsRaise(r.ret) /\ r.s.cursor = "open"
                    THEN Result(close(r.s, FALSE, a.auto_connect).s, r.ret)
                    ELSE r

\* exec(query, params, fetch, auto_connect, fetch_type, insert_many)
exec(s, a, d) ==
    LET o == open(s, a.auto_connect, renamed(a.fetch_type), d)
    IN  CASE IsRaise(o.ret) -> o
          [] o.ret = PBool(FALSE) -> Result(o.s, Raise("AttributeError"))
          [] OTHER ->
                LET e == IF usesExecutemany(a.insert_many)
                         THEN executemany(o.s, a.query, a.params, d)
                         ELSE execute(o.s, a.query, a.params, d)
                IN  IF IsRaise(e.ret) THEN e ELSE afterExecute(e.s, a, d)

\* ------------------------------------------------------------------------
\* Calls a caller can make, and what the driver may do during each
\* ------------------------------------------------------------------------

\* The driver call that fails during an operation, if any: connect() handing
\* back no handle or raising, execute raising, the first or the second fetch
\* of a run raising.  The first failure ends the operation, so one suffices.
ConnectFaults == {"none", "connect_none", "connect_raise"}
ExecuteFaults == {"none", "execute"}
RunFaults == ConnectFaults \cup ExecuteFaults \cup {"fetch1", "fetch2"}

Driver(fault) == [fault |-> fault, rs |-> args.rs]

\* the state after an operation op whose body evaluated to r
Apply(op, r) ==
    /\ db' = r.s.db
    /\ cursor' = r.s.cursor
    /\ rowKind' = r.s.rowKind
    /\ row_factory' = r.s.row_factory
    /\ cols' = r.s.cols
    /\ unread' = r.s.unread
    /\ openConns' = r.s.openConns
    /\ openCursors' = r.s.openCursors
    /\ log' = r.s.log
    /\ sent' = r.s.sent
    /\ openArgs' = r.s.openArgs
    /\ lastOp' = op
    /\ ret' = r.ret
    /\ UNCHANGED <<ctor, profile, db_type, args>>

Connect ==
    /\ openConns < MaxOpenConns
    /\ \E fault \in ConnectFaults :
       \E r \in {connect(Session, Driver(fault))} : Apply("connect", r)

Disconnect ==
    \E r \in {disconnect(Session)} : Apply("disconnect", r)

Open ==
    \E auto_connect \in BOOLEAN, fetch_type \in FetchTypes \cup {"named"},
       fault \in ConnectFaults :
          /\ auto_connect => openConns < MaxOpenConns
          /\ ~auto_connect => fault = "none"
          /\ \E r \in {open(Session, auto_connect, fetch_type, Driver(fault))} :
                Apply("open", r)

Commit ==
    \E r \in {commit(Session)} : Apply("commit", r)

Close ==
    \E commit_ \in BOOLEAN, auto_connect \in BOOLEAN :
    \E r \in {close(Session, commit_, auto_connect)} : Apply("close", r)

Execute ==
    \E fault \in ExecuteFaults :
    \E r \in {execute(Session, args.query, args.params, Driver(fault))} :
          Apply("execute", r)

Executemany ==
    \E fault \in ExecuteFaults :
    \E r \in {executemany(Session, args.query, args.params, Driver(fault))} :
          Apply("executemany", r)

Exec ==
    \E fault \in RunFaults :
          /\ args.auto_connect => openConns < MaxOpenConns
          /\ ~args.auto_connect => fault \notin {"connect_none", "connect_raise"}
          /\ \E r \in {exec(Session, args, Driver(fault))} : Apply("exec", r)

\* __enter__
Enter ==
    /\ openConns < MaxOpenConns
    /\ \E fault \in ConnectFaults :
       \E r \in {connect(Session, Driver(fault))} :
          Apply("enter", IF IsRaise(r.ret) THEN r ELSE Result(r.s, PNone))

\* __exit__
Exit == Apply("exit", disconnect(Session))

\* ------------------------------------------------------------------------
\* Arguments of exec, drawn when the instance is constructed
\* ------------------------------------------------------------------------

P_none == PNone
P_five == PTuple(<<PInt(5)>>)
P_many == PTuple(<<PTuple(<<PInt(1)>>), PTuple(<<PInt(2)>>)>>)

Fetches == {"all", "one", "single", "list", "many"}
FetchTypeArgs == FetchTypes \cup {"dict_name", "named"}

Call(q, p, f, ac, ft, im, rs) ==
    [query |-> q, params |-> p, fetch |-> f, auto_connect |-> ac,
     fetch_type |-> ft, insert_many |-> im, rs |-> rs]

\* every statement text, with and without params, single and batch mode
TextCalls ==
    {Call(q, p, "all", TRUE, "tuple", FALSE, RS_one) :
        q \in Queries, p \in {P_none, P_five}}
    \cup {Call(q, P_many, "all", TRUE, "tuple", TRUE, RS_one) :
        q \in {Q_two, Q_delete}}

\* every quantity and fetch shape over every answer of the backend
ShapeCalls ==
    {Call(Q_select, P_none, f, TRUE, ft, FALSE, rs) :
        f \in Fetches, ft \in FetchTypeArgs, rs \in ResultSets}

\* every quantity and fetch shape for a RETURNING statement and a mutating
\* one, on a connection the run opens or on one the caller opened
OtherShapeCalls ==
    {Call(q, P_none, f, ac, ft, FALSE, RS_one) :
        q \in {Q_returning, Q_update}, f \in Fetches, ac \in BOOLEAN,
        ft \in FetchTypeArgs}

\* the calls made while the caller also drives the session by hand
SessionCalls ==
    {Call(Q_two, P_none, "all", TRUE, "tuple", FALSE, RS_one),
     Call(Q_delete, P_five, "all", FALSE, "tuple", FALSE, RS_one),
     Call(Q_two, P_many, "all", TRUE, "tuple", TRUE, RS_one),
     Call(Q_select, P_none, "one", FALSE, "with_names", FALSE, RS_users)}

\* db_type values the constructor accepts: the five it knows and any other
ConstructedTypes == DbTypes \cup {"oracle"}

\* no session yet: what the attributes of the session are before __init__
NoSession ==
    /\ db = "None"
    /\ cursor = "None"
    /\ rowKind = "tuple"
    /\ row_factory = "default"
    /\ cols = <<>>
    /\ unread = <<>>
    /\ openConns = 0
    /\ openCursors = 0
    /\ log = <<>>
    /\ sent = <<>>
    /\ openArgs = <<>>

\* the argument given for field f, or None
Given(f, on) == IF on THEN PStr(<<"arg", f>>) ELSE PNone

\* the key of the config that field f is read from
KeyOf(f) ==
    CASE f = "database" -> "name"
      [] f = "host" -> "addr"
      [] f = "password" -> "passwd"
      [] OTHER -> f

\* the fields are given, or held by the config, in three groups
Group1 == {"database", "port", "options"}
Group2 == {"host", "sslmode"}
Group3 == {"user", "password"}

\* how a config holds a key: not at all, with None, or with a value
Holdings == {"absent", "none", "value"}

Held(f, how) == IF how = "value" THEN PStr(<<"cfg", f>>) ELSE PNone

\* a config holding "type" as typ says and each group as h1, h2, h3 say
ConfigOf(typ, h1, h2, h3) ==
    LET held == (IF h1 = "absent" THEN {} ELSE Group1)
                \cup (IF h2 = "absent" THEN {} ELSE Group2)
                \cup (IF h3 = "absent" THEN {} ELSE Group3)
        ks == {KeyOf(f) : f \in held} \cup (IF typ = "absent" THEN {} ELSE {"type"})
    IN  Mapping([k \in ks |->
            IF k = "type"
            THEN (IF typ = "none" THEN PNone ELSE PWord(typ))
            ELSE LET f == CHOOSE g \in held : KeyOf(g) = k
                 IN  Held(f, CASE f \in Group1 -> h1
                               [] f \in Group2 -> h2
                               [] OTHER -> h3)])

\* a call of the constructor
Ctor(t, e1, e2, e3, config) ==
    [db_type |-> t,
     db_name |-> Given("database", e1),
     db_server |-> Given("host", e2),
     db_port |-> Given("port", e1),
     db_user |-> Given("user", e3),
     db_password |-> Given("password", e3),
     sslmode |-> Given("sslmode", e2),
     options |-> Given("options", e1),
     config |-> config]

TypeArgs == {PNone} \cup {PWord(t) : t \in ConstructedTypes}

CtorInputs ==
    {Ctor(t, e1, e2, e3, PNone) :
        t \in TypeArgs, e1 \in BOOLEAN, e2 \in BOOLEAN, e3 \in BOOLEAN}
    \cup {Ctor(t, e1, e2, e3, ConfigOf(typ, h1, h2, h3)) :
            t \in TypeArgs, e1 \in BOOLEAN, e2 \in BOOLEAN, e3 \in BOOLEAN,
            typ \in {"absent", "none", "mysql", "sqlite"},
            h1 \in Holdings, h2 \in Holdings, h3 \in Holdings}

\* an instance constructed with every parameter given and no config
InitSession ==
    /\ ctor \in {Ctor(PWord(t), TRUE, TRUE, TRUE, PNone) : t \in ConstructedTypes}
    /\ profile = construct(ctor)
    /\ db_type = TypeName(profile.s.db_type)
    /\ NoSession
    /\ lastOp = "init"
    /\ ret = PNone

Init == InitSession /\ args \in SessionCalls

Next ==
    \/ Connect
    \/ Disconnect
    \/ Open
    \/ Commit
    \/ Close
    \/ Execute
    \/ Executemany
    \/ Exec
    \/ Enter
    \/ Exit

Spec == Init /\ [][Next]_vars

\* runs of exec on a session the caller may connect and disconnect
InitRun == InitSession /\ args \in TextCalls \cup ShapeCalls \cup OtherShapeCalls

NextRun ==
    \/ Connect
    \/ Disconnect
    \/ Exec

SpecRun == InitRun /\ [][NextRun]_vars

\* calls of the constructor
InitCtor ==
    /\ ctor \in CtorInputs
    /\ profile = Result(blank, Unset)
    /\ db_type = "None"
    /\ args \in {Call(Q_two, P_none, "all", TRUE, "tuple", FALSE, RS_one)}
    /\ NoSession
    /\ lastOp = "init"
    /\ ret = PNone

Construct ==
    /\ profile.ret = Unset
    /\ profile' = construct(ctor)
    /\ db_type' = IF profile'.s.db_type.ty = "str"
                  THEN TypeName(profile'.s.db_type) ELSE "None"
    /\ lastOp' = "__init__"
    /\ ret' = profile'.ret
    /\ UNCHANGED <<ctor, args, db, cursor, rowKind, row_factory, cols, unread,
                   openConns, openCursors, log, sent, openArgs>>

NextCtor == Construct

SpecCtor == InitCtor /\ [][NextCtor]_vars

TypeOK ==
    /\ db \in {"None", "open", "closed"}
    /\ cursor \in {"None", "open", "closed"}
    /\ openConns \in 0..MaxOpenConns
    /\ openCursors \in Nat
    /\ IsRaise(profile.ret) \/ profile.ret \in {PNone, Unset}

\* ------------------------------------------------------------------------
\* Vocabulary of the properties
\* ------------------------------------------------------------------------

InLog(ev) == \E i \in 1..Len(log) : log[i] = ev

CountInLog(ev) == Cardinality({i \in 1..Len(log) : log[i] = ev})

Fetched == InLog("cursor.fetchone") \/ InLog("cursor.fetchall")

IsExecuteEvent(ev) == ev \in {"cursor.execute", "cursor.executemany"}

\* the driver calls of the last operation that follow its execute call
CallsAfterExecute ==
    LET i == CHOOSE k \in 1..Len(log) : IsExecuteEvent(log[k])
    IN  SubSeq(log, i + 1, Len(log))

\* the last operation was a run that returned
RunReturned == lastOp = "exec" /\ ~IsRaise(ret)

\* the last operation was a run whose statement the backend executed and
\* during which no driver call failed
RunAnswered ==
    lastOp = "exec" /\ sent # <<>> /\ ret # Raise("BackendError")

\* the classification rule as the specification words it
HeadHasSelectOrShow(q) ==
    \/ Contains(SubSeq(Upper(q), 1, IF Len(q) < 20 THEN Len(q) ELSE 20), KW_SELECT)
    \/ Contains(SubSeq(Upper(q), 1, IF Len(q) < 20 THEN Len(q) ELSE 20), KW_SHOW)

Projecting(q) == HeadHasSelectOrShow(q) \/ Contains(Upper(q), KW_RETURNING)

WithTitles == args.fetch_type \in {"with_names", "dict_name"}

\* a row with every None replaced by ""
Normalized(raw) == [i \in 1..Len(raw) |-> NoneToEmpty(raw[i])]

\* ------------------------------------------------------------------------
\* C1
\* ------------------------------------------------------------------------

\* C1: a run that returns has fetched rows if and only if the uppercased
\* first 20 characters of its statement contain SELECT or SHOW or its whole
\* uppercased text contains RETURNING; every other statement is not fetched,
\* is committed and returns nothing.  SELECT * FROM t, SHOW TABLES and
\* INSERT ... RETURNING id are fetched, UPDATE t SET x=1 is not.
C1_Classification ==
    RunReturned =>
        /\ Fetched <=> Projecting(args.query)
        /\ ~Projecting(args.query) =>
              ~Fetched /\ InLog("db.commit") /\ ret = PNone
        /\ args.query \in {Q_select, Q_show, Q_returning} => Fetched
        /\ args.query = Q_update => ~Fetched

C1_Witness ==
    /\ RunReturned
    /\ args.query = Q_returning
    /\ Fetched
    /\ ret = PList(<<PTuple(<<PInt(42), PStr(S_x)>>)>>)

\* ------------------------------------------------------------------------
\* C2
\* ------------------------------------------------------------------------

\* C2: in a run of a mutating statement that returns, the driver calls after
\* execute are commit, then cursor close, then the connection's close if and
\* only if auto_connect, and the run returns None whatever fetch and
\* fetch_type were.
C2_MutatingOrder ==
    (RunReturned /\ ~Projecting(args.query)) =>
        /\ \E i \in 1..Len(log) : IsExecuteEvent(log[i])
        /\ CallsAfterExecute =
              <<"db.commit", "cursor.close">>
              \o (IF args.auto_connect THEN <<"db.close">> ELSE <<>>)
        /\ ret = PNone

C2_Witness ==
    /\ RunReturned
    /\ args.query = Q_update
    /\ ~args.auto_connect
    /\ args.fetch = "many"
    /\ args.fetch_type = "with_names"
    /\ CallsAfterExecute = <<"db.commit", "cursor.close">>

\* ------------------------------------------------------------------------
\* C3
\* ------------------------------------------------------------------------

\* C3 as claimed: no run of a projecting statement, the RETURNING override
\* included, issues a commit.
C3_NoCommitWhenProjecting ==
    (lastOp = "exec" /\ Projecting(args.query)) => ~InLog("db.commit")

\* C3 amended: a run of a statement with SELECT or SHOW in its uppercased
\* first 20 characters never issues a commit; a run that returns of a
\* statement projecting only by RETURNING fetches, then commits, then closes
\* the cursor.
C3_CommitOnlyForReturning ==
    /\ (lastOp = "exec" /\ HeadHasSelectOrShow(args.query)) => ~InLog("db.commit")
    /\ (RunReturned /\ Projecting(args.query) /\ ~HeadHasSelectOrShow(args.query)) =>
          /\ Fetched
          /\ CountInLog("db.commit") = 1
          /\ \E i \in 2..(Len(log) - 1) :
                /\ log[i] = "db.commit"
                /\ log[i - 1] = "cursor.fetchall"
                /\ log[i + 1] = "cursor.close"

C3_Witness ==
    /\ RunReturned
    /\ args.query = Q_returning
    /\ args.fetch = "single"
    /\ InLog("db.commit")
    /\ ret = PInt(42)

\* ------------------------------------------------------------------------
\* C4
\* ------------------------------------------------------------------------

\* C4: a run with auto_connect whose connect() did not raise and after which
\* self.db is None, that is, one whose connect() yielded no handle and
\* returned False, raises the cursor-creation error (AttributeError), hands
\* no statement to the driver, makes no driver call other than at most one
\* connect, and leaves the cursor as it was.
C4_ConnectFailsRun ==
    [][(/\ lastOp' = "exec"
        /\ args.auto_connect
        /\ db' = "None"
        /\ ret' # Raise("BackendError")) =>
          /\ ret' = Raise("AttributeError")
          /\ sent' = <<>>
          /\ \A i \in 1..Len(log') : log'[i] = "connect"
          /\ Len(log') <= 1
          /\ cursor' = cursor
          /\ unread' = unread]_vars

C4_Witness ==
    /\ lastOp = "exec"
    /\ args.auto_connect
    /\ db = "None"
    /\ db_type = "postgresql"
    /\ cursor = "open"
    /\ log = <<"connect">>
    /\ ret = Raise("AttributeError")

\* ------------------------------------------------------------------------
\* C5
\* ------------------------------------------------------------------------

\* C5: an answered run of a projecting statement with fetch "single" and
\* fetch_type tuple, list or dict returns the first field of the first row
\* when there is a row, and None when there is none.
C5_SingleFirstField ==
    (/\ RunAnswered
     /\ Projecting(args.query)
     /\ args.fetch = "single"
     /\ args.fetch_type \in {"tuple", "list", "dict"}) =>
        ret = IF args.rs.rows = <<>> THEN PNone ELSE args.rs.rows[1][1]

\* ------------------------------------------------------------------------
\* C6
\* ------------------------------------------------------------------------

\* C6: an answered run of a projecting statement with fetch "list" returns,
\* on every backend and for every fetch_type, a list with one element per
\* row, the i-th being the first field of the i-th row.
C6_ListOfFirstFields ==
    (/\ RunAnswered
     /\ Projecting(args.query)
     /\ args.fetch = "list"
     /\ args.fetch_type \in FetchTypeArgs \ {"named"}) =>
        /\ ret.ty = "list"
        /\ Len(ret.v) = Len(args.rs.rows)
        /\ \A i \in 1..Len(args.rs.rows) : ret.v[i] = args.rs.rows[i][1]

\* ------------------------------------------------------------------------
\* C7
\* ------------------------------------------------------------------------

\* C7: on every backend, an answered projecting run with titles and fetch
\* "all" over at least one row returns two elements: the column names in
\* order, and the rows, each its values in order with None shown as "".
C7_TitlesAndRows ==
    (/\ RunAnswered
     /\ Projecting(args.query)
     /\ WithTitles
     /\ args.fetch = "all"
     /\ args.rs.rows # <<>>) =>
        /\ ret.ty = "list"
        /\ Len(ret.v) = 2
        /\ ret.v[1] = titlesOf(args.rs.cols)
        /\ ret.v[2].ty = "list"
        /\ Len(ret.v[2].v) = Len(args.rs.rows)
        /\ \A i \in 1..Len(args.rs.rows) :
              /\ ret.v[2].v[i].ty \in {"list", "tuple"}
              /\ ret.v[2].v[i].v = Normalized(args.rs.rows[i])

\* ------------------------------------------------------------------------
\* C8
\* ------------------------------------------------------------------------

\* C8: an answered projecting run with titles whose statement matches no row
\* returns the empty list, for fetch all, one and single alike.
C8_EmptyWithTitles ==
    (/\ RunAnswered
     /\ Projecting(args.query)
     /\ WithTitles
     /\ args.fetch \in {"all", "one", "single"}
     /\ args.rs.rows = <<>>) =>
        ret = PList(<<>>)

\* ------------------------------------------------------------------------
\* C9
\* ------------------------------------------------------------------------

\* whether x, a field or a row of fields, holds a None
HoldsNone(x) ==
    \/ IsNone(x)
    \/ /\ x.ty \in {"list", "tuple"}
       /\ \E j \in 1..Len(x.v) : IsNone(x.v[j])

\* C9: in every two-element result a run with titles returns, for fetch all,
\* one and single, the data part holds no None, whether it is one value, a
\* flat sequence of values or a sequence of rows.
C9_NoNoneInData ==
    (/\ RunReturned
     /\ WithTitles
     /\ args.fetch \in {"all", "one", "single"}
     /\ ret.ty = "list"
     /\ Len(ret.v) = 2) =>
        /\ ~IsNone(ret.v[2])
        /\ ret.v[2].ty \in {"list", "tuple"} =>
              \A i \in 1..Len(ret.v[2].v) : ~HoldsNone(ret.v[2].v[i])

\* ------------------------------------------------------------------------
\* C10
\* ------------------------------------------------------------------------

\* DELETE FROM t WHERE id=?
Q_delete_qmark ==
    <<"D","E","L","E","T","E"," ","F","R","O","M"," ","t"," ","W","H","E","R","E"," ","i","d","=","?">>

\* C10: whatever execute or executemany hands to the driver is, on sqlite,
\* the statement text with every %s replaced by ? together with the params,
\* () standing for absent params; on every other backend it is the text and
\* the params as given.  DELETE FROM t WHERE id=%s with (5,) reaches sqlite
\* as DELETE FROM t WHERE id=? with (5,).
C10_Placeholders ==
    sent # <<>> =>
        IF db_type = "sqlite"
        THEN /\ sent[1].query = Replace(args.query, <<"%","s">>, <<"?">>)
             /\ ~Contains(sent[1].query, <<"%","s">>)
             /\ sent[1].params =
                   IF args.params = PNone THEN PTuple(<<>>) ELSE args.params
             /\ (args.query = Q_delete /\ args.params = P_five) =>
                   sent[1].query = Q_delete_qmark /\ sent[1].params = P_five
        ELSE sent[1].query = args.query /\ sent[1].params = args.params

C10_Witness ==
    /\ db_type = "sqlite"
    /\ lastOp = "executemany"
    /\ ret = PNone
    /\ args.query = Q_two
    /\ args.params = P_many
    /\ sent[1].call = "cursor.executemany"
    /\ Len(sent[1].query) = Len(Q_two) - 2

\* ------------------------------------------------------------------------
\* C14
\* ------------------------------------------------------------------------

\* C14: a run that returns disconnects if and only if auto_connect.  With
\* auto_connect it connects first and closes that connection last, so no more
\* connections are open after it than before.  Without auto_connect it calls
\* neither connect nor the connection's close, and self.db is the same open
\* connection before and after.
C14_DisconnectIffAutoConnect ==
    [][(lastOp' = "exec" /\ ~IsRaise(ret')) =>
          IF args.auto_connect
          THEN /\ log'[1] = "connect"
               /\ log'[Len(log')] = "db.close"
               /\ Cardinality({i \in 1..Len(log') : log'[i] = "connect"}) = 1
               /\ Cardinality({i \in 1..Len(log') : log'[i] = "db.close"}) = 1
               /\ db' = "closed"
               /\ openConns' = openConns
          ELSE /\ \A i \in 1..Len(log') : log'[i] \notin {"connect", "db.close"}
               /\ db = "open"
               /\ db' = "open"
               /\ openConns' = openConns]_vars

C14_Witness ==
    /\ RunReturned
    /\ ~args.auto_connect
    /\ args.query = Q_update
    /\ db = "open"
    /\ cursor = "closed"
    /\ ~InLog("connect")
    /\ CallsAfterExecute = <<"db.commit", "cursor.close">>

\* ------------------------------------------------------------------------
\* C15
\* ------------------------------------------------------------------------

ValidFetches == {"all", "one", "single", "list"}

\* C15 as claimed: a run with a fetch outside all, one, single, list raises
\* ValueError and hands no statement to the driver.
C15_BadFetchBeforeExecute ==
    (lastOp = "exec" /\ args.fetch \notin ValidFetches) =>
        ret = Raise("ValueError") /\ sent = <<>>

\* C15 amended: a run of a projecting statement with a fetch outside all,
\* one, single, list, whose statement the backend executed, raises
\* ValueError after the execute call and before any fetch, and calls nothing
\* after it: the cursor and the connection stay open.  A run of a mutating
\* statement does not look at fetch: it returns None.
C15_BadFetchAfterExecute ==
    /\ (/\ lastOp = "exec"
        /\ args.fetch \notin ValidFetches
        /\ Projecting(args.query)
        /\ sent # <<>>
        /\ ret # Raise("BackendError")) =>
          /\ ret = Raise("ValueError")
          /\ IsExecuteEvent(log[Len(log)])
          /\ ~Fetched
          /\ cursor = "open"
          /\ db = "open"
    /\ (/\ lastOp = "exec"
        /\ args.fetch \notin ValidFetches
        /\ ~Projecting(args.query)
        /\ sent # <<>>
        /\ ret # Raise("BackendError")) =>
          ret = PNone

C15_Witness ==
    /\ lastOp = "exec"
    /\ args.fetch = "many"
    /\ args.query = Q_returning
    /\ args.fetch_type = "dict"
    /\ ret = Raise("ValueError")
    /\ sent # <<>>
    /\ cursor = "open"

\* ------------------------------------------------------------------------
\* C18
\* ------------------------------------------------------------------------

\* C18: a run in which the driver raised during execute or a fetch, that is,
\* one that raised BackendError after calling execute, ends with that call:
\* execute was called once, each fetch at most once, no commit, cursor close
\* or connection close follows, and the cursor and the connection are open
\* as they were when the call failed.
C18_DriverErrorStopsRun ==
    (/\ lastOp = "exec"
     /\ ret = Raise("BackendError")
     /\ \E i \in 1..Len(log) : IsExecuteEvent(log[i])) =>
        /\ log[Len(log)] \in
              {"cursor.execute", "cursor.executemany",
               "cursor.fetchone", "cursor.fetchall"}
        /\ Cardinality({i \in 1..Len(log) : IsExecuteEvent(log[i])}) = 1
        /\ CountInLog("cursor.fetchone") <= 1
        /\ CountInLog("cursor.fetchall") <= 1
        /\ CallsAfterExecute \in
              {<<>>, <<"cursor.fetchone">>, <<"cursor.fetchall">>,
               <<"cursor.fetchone", "cursor.fetchall">>}
        /\ ~InLog("db.commit")
        /\ ~InLog("db.close")
        /\ cursor = "open"
        /\ db = "open"

C18_Witness ==
    /\ lastOp = "exec"
    /\ ret = Raise("BackendError")
    /\ args.fetch = "one"
    /\ InLog("cursor.execute")
    /\ CallsAfterExecute = <<"cursor.fetchone", "cursor.fetchall">>
    /\ cursor = "open"
    /\ db = "open"

\* ------------------------------------------------------------------------
\* C19
\* ------------------------------------------------------------------------

\* C19: in a run of a projecting statement with fetch one or single that
\* returns, the driver calls after execute are one fetchone, then one
\* fetchall, then the cursor close, with nothing but the commit of a
\* RETURNING statement between the fetchall and the cursor close.
C19_FetchOneThenDrain ==
    (/\ RunReturned
     /\ Projecting(args.query)
     /\ args.fetch \in {"one", "single"}) =>
        /\ \E i \in 1..Len(log) : IsExecuteEvent(log[i])
        /\ CountInLog("cursor.fetchone") = 1
        /\ CountInLog("cursor.fetchall") = 1
        /\ CallsAfterExecute =
              <<"cursor.fetchone", "cursor.fetchall">>
              \o (IF HeadHasSelectOrShow(args.query) THEN <<>> ELSE <<"db.commit">>)
              \o <<"cursor.close">>
              \o (IF args.auto_connect THEN <<"db.close">> ELSE <<>>)

C19_Witness ==
    /\ RunReturned
    /\ args.query = Q_select
    /\ args.fetch = "one"
    /\ args.fetch_type = "tuple"
    /\ args.rs = RS_users
    /\ ret = PTuple(<<PStr(S_Ann), PInt(30)>>)
    /\ CallsAfterExecute =
          <<"cursor.fetchone", "cursor.fetchall", "cursor.close", "db.close">>

\* ------------------------------------------------------------------------
\* C20
\* ------------------------------------------------------------------------

\* C20: on every backend, an answered projecting run with titles and fetch
\* "single" over at least one row returns the first column name and the
\* first value of the first row, a None value shown as "".
C20_SingleWithTitles ==
    (/\ RunAnswered
     /\ Projecting(args.query)
     /\ WithTitles
     /\ args.fetch = "single"
     /\ args.rs.rows # <<>>) =>
        ret = PList(<<PStr(args.rs.cols[1]), NoneToEmpty(args.rs.rows[1][1])>>)

\* ------------------------------------------------------------------------
\* C11, C12, C13: the constructor
\* ------------------------------------------------------------------------

Fields == {"database", "host", "port", "user", "password", "sslmode", "options"}

\* the parameter of the constructor that gives field f
ArgOf(f) ==
    CASE f = "database" -> ctor.db_name
      [] f = "host" -> ctor.db_server
      [] f = "port" -> ctor.db_port
      [] f = "user" -> ctor.db_user
      [] f = "password" -> ctor.db_password
      [] f = "sslmode" -> ctor.sslmode
      [] f = "options" -> ctor.options

ConfigHolds(f) == ~IsNone(ctor.config) /\ KeyOf(f) \in DOMAIN ctor.config.v

\* the default of field f for the db_type of the instance
DefaultOf(f) == defaults([blank EXCEPT !.db_type = profile.s.db_type])[f]

\* the value of field f by precedence: parameter, config, default
Resolved(f) ==
    CASE ~IsNone(ArgOf(f)) -> ArgOf(f)
      [] ConfigHolds(f) -> ctor.config.v[KeyOf(f)]
      [] OTHER -> DefaultOf(f)

Constructed == lastOp = "__init__" /\ profile.ret = PNone

\* C11: after a construction that succeeds, each of database, host, port,
\* user, password, sslmode and options is the parameter if one was given,
\* otherwise the config's value if the config holds the key, otherwise the
\* default of the db_type.
C11_MergePrecedence ==
    Constructed => \A f \in Fields : profile.s[f] = Resolved(f)

C11_Witness ==
    /\ Constructed
    /\ profile.s.db_type = PWord("postgresql")
    /\ ConfigHolds("port")
    /\ profile.s.port = PStr(<<"arg", "port">>)
    /\ IsNone(ctor.db_server)
    /\ profile.s.host = PStr(<<"cfg", "host">>)
    /\ profile.s.sslmode = PStr(<<"cfg", "sslmode">>)
    /\ IsNone(ctor.db_user)
    /\ ~ConfigHolds("user")
    /\ profile.s.user = PWord("postgres")
    /\ IsNone(profile.s.password)

\* C12: a construction given no db_type, neither as parameter nor in the
\* config (no config at all, or a config without a type), raises ValueError
\* before any attribute is given a default.
C12_MissingTypeIsValueError ==
    (/\ lastOp = "__init__"
     /\ IsNone(ctor.db_type)
     /\ (IsNone(ctor.config) \/ IsNone(Get(ctor.config, "type", PNone)))) =>
        /\ profile.ret = Raise("ValueError")
        /\ profile.s = blank

Required == {"database", "host", "port", "user", "sslmode", "options"}

\* C13 as claimed: after a construction that succeeds, database, host, port,
\* user, sslmode and options are neither None nor the empty string.
C13_RequiredNonEmpty ==
    Constructed =>
        \A f \in Required : profile.s[f] \notin {PNone, PEmptyStr}

\* C13 amended: after a construction that succeeds, none of database, host,
\* port, user, sslmode and options is None, the empty string being a value
\* like any other; and a construction that knows its db_type and resolves
\* one of them to None raises ValueError.
C13_RequiredNotNone ==
    /\ Constructed => \A f \in Required : ~IsNone(profile.s[f])
    /\ (/\ lastOp = "__init__"
        /\ profile.s.db_type # Unset
        /\ \E f \in Required : IsNone(Resolved(f))) =>
          profile.ret = Raise("ValueError")

C13_Witness ==
    /\ Constructed
    /\ profile.s.db_type = PWord("sqlite")
    /\ profile.s.host = PEmptyStr
    /\ profile.s.user = PEmptyStr
    /\ profile.s.database = PStr(<<"arg", "database">>)

\* ------------------------------------------------------------------------
\* C16, C17
\* ------------------------------------------------------------------------

\* C16: at most one cursor created by the instance is open at any time.  An
\* operation creates at most one cursor, and when the instance holds one
\* already it closes that one before; and open on an instance that holds no
\* cursor does not fail for that: on an open connection, unless the driver
\* raises, it returns True, or raises ValueError for its fetch_type without
\* creating a cursor.
C16_AtMostOneCursor ==
    [][/\ openCursors' <= 1
       /\ Cardinality({i \in 1..Len(log') : log'[i] = "db.cursor"}) <= 1
       /\ \A j \in 1..Len(log') :
            (log'[j] = "db.cursor" /\ cursor # "None") =>
                \E i \in 1..(j - 1) : log'[i] = "cursor.close"
       /\ (/\ lastOp' = "open"
           /\ cursor = "None"
           /\ db' = "open"
           /\ ret' # Raise("BackendError")) =>
            \/ ret' = PBool(TRUE) /\ cursor' = "open" /\ openCursors' = 1
            \/ ret' = Raise("ValueError") /\ cursor' = "None"]_vars

C16_Witness ==
    /\ lastOp = "open"
    /\ ret = PBool(TRUE)
    /\ log = <<"cursor.close", "db.cursor">>
    /\ openCursors = 1

\* C17: at most one native connection opened by the instance is open at any
\* time.
C17_AtMostOneConnection == openConns <= 1

\* ------------------------------------------------------------------------
\* C21
\* ------------------------------------------------------------------------

\* C21: a construction that no layer gives a password (no parameter, no
\* config value, no default of the db_type), and that lacks nothing else,
\* succeeds, and the password later handed to connect is the empty string,
\* not None.
C21_PasswordCoerced ==
    (/\ lastOp = "__init__"
     /\ profile.s.db_type # Unset
     /\ IsNone(Resolved("password"))
     /\ \A f \in Required : ~IsNone(Resolved(f))) =>
        /\ profile.ret = PNone
        /\ passwordArg(profile.s) = PEmptyStr

\* ------------------------------------------------------------------------
\* C22
\* ------------------------------------------------------------------------

\* C22: open called with auto_connect true and a fetch_type outside tuple,
\* list, dict, with_names, whose connect gave a connection, raises ValueError
\* after connect, its first call, and after the close of the cursor the
\* instance held, if any, its only other call: it creates no cursor and
\* leaves the connection it opened open.
C22_BadShapeAfterConnect ==
    [][(/\ lastOp' = "open"
        /\ openArgs'[1]
        /\ openArgs'[2] \notin FetchTypes
        /\ ret' \notin {Raise("BackendError"), PBool(FALSE)}) =>
          /\ ret' = Raise("ValueError")
          /\ log' = <<"connect">>
                    \o (IF cursor = "None" THEN <<>> ELSE <<"cursor.close">>)
          /\ cursor' = (IF cursor = "None" THEN "None" ELSE "closed")
          /\ openCursors' = (IF cursor = "open" THEN openCursors - 1 ELSE openCursors)
          /\ db' = "open"
          /\ openConns' = openConns + 1]_vars

C22_Witness ==
    /\ lastOp = "open"
    /\ openArgs = <<TRUE, "named">>
    /\ ret = Raise("ValueError")
    /\ log = <<"connect", "cursor.close">>
    /\ cursor = "closed"
    /\ openCursors = 0
    /\ db = "open"

====
